---- MODULE Spec2Model ----
(***************************************************************************)
(* State-machine model of the SBCarousel React component                   *)
(* (src/src/components/SBCarousel/SBCarousel.tsx): the navigation          *)
(* commands, the touch / mouse gesture handlers and the release-time snap. *)
(*                                                                         *)
(* Pixel quantities are integers.  The wrapper's offsetWidth is taken to   *)
(* be a multiple of itemsPerView so that offsetWidth / itemsPerView is     *)
(* exact; the half-slot comparison of the snap is done on doubled values.  *)
(***************************************************************************)
EXTENDS Integers, Sequences, FiniteSets

\* ---------------------------------------------------------------- bounds
MaxLength == 3
MaxGestureLength == 2
MaxItemsPerView == 3
MaxSlotWidth == 2
MaxPointer == 3
MaxEmptyNodes == 1
MaxFalsyNodes == 1
MaxDots == 7

\* ------------------------------------------------- program constants
scrollSensitivity == 1
minDragDistance == 2

VARIABLES
  length,                    \* Children.count(children)
  childrenArray,             \* Children.toArray(children): TRUE an element, FALSE a listed falsy child (0, '');
                             \* empty nodes (null, undefined, booleans) are counted in length, not listed
  itemsPerView,              \* prop
  infiniteLoop,              \* prop
  addExtraFirstAndLastView,  \* prop
  freeScroll,                \* prop
  autoplay,                  \* prop
  advancePagesOnAutoScroll,  \* prop
  showArrowButtons,          \* prop
  offsetWidth,               \* carouselContentWrapperRef.current.offsetWidth
  currentIndex,              \* useState
  isDragging,                \* useState
  isMouseInside,             \* useState
  touchClickPosition,        \* useState: <<>> is null, <<p>> is the number p
  scrollLeft,                \* useState
  itemWidth,                 \* useMemo value seen by the handlers of the last render
  wrapperScrollLeft,         \* carouselContentWrapperRef.current.scrollLeft
  scrollTarget,              \* the offset a smooth scroll in progress is heading for, <<>> when none is
  lastOp,                    \* history: the handler, command or interval callback that ran last
  acted,                     \* history: that handler passed its guard
  lastArg,                   \* history: the pointer position of a move; the wrapper offset a release, leave or cancel found
  run                        \* history: nextItem calls made since construction, <<>> once anything else ran

props == <<length, childrenArray, itemsPerView, infiniteLoop, addExtraFirstAndLastView, freeScroll,
           autoplay, advancePagesOnAutoScroll, showArrowButtons, offsetWidth>>
state == <<currentIndex, isDragging, isMouseInside, touchClickPosition, scrollLeft>>
wrapper == <<wrapperScrollLeft, scrollTarget>>
history == <<lastOp, acted, lastArg, run>>
vars == <<length, childrenArray, itemsPerView, infiniteLoop, addExtraFirstAndLastView, freeScroll,
          autoplay, advancePagesOnAutoScroll, showArrowButtons, offsetWidth, currentIndex, isDragging, isMouseInside, touchClickPosition,
          scrollLeft, itemWidth, wrapperScrollLeft, scrollTarget, lastOp, acted, lastArg, run>>

\* ---------------------------------------------------------------- helpers
Null == <<>>
Num(p) == <<p>>
Truthy(t) == t # Null /\ t[1] # 0
Abs(x) == IF x < 0 THEN -x ELSE x
Max2(a, b) == IF a >= b THEN a ELSE b
Min2(a, b) == IF a <= b THEN a ELSE b
MaxRun == MaxLength + 2
\* pointer positions (pageX - offsetLeft): walks below, at and above minDragDistance
Pointers == {0, 1, MaxPointer}

\* ------------------------------------------------------- derived values
childrenArrayLength == Len(childrenArray)

\* childrenArray[index] is truthy: listed and not 0 or ''
Child(index) == 0 <= index /\ index < childrenArrayLength /\ childrenArray[index + 1]

isRepeating == infiniteLoop /\ length > itemsPerView

\* the value the itemWidth memo computes at a render that follows the mount
MeasuredItemWidth == offsetWidth \div itemsPerView

\* the entries of extraPreviousItems and extraNextItems that render an element:
\* Children.toArray(children)[length - 1 - index] and [index], index < itemsPerView,
\* are undefined outside the listed children, and a listed 0 or '' is no element
extraPreviousItems ==
  Cardinality({index \in 0..(itemsPerView - 1) : Child(length - 1 - index)})
extraNextItems ==
  Cardinality({index \in 0..(itemsPerView - 1) : Child(index)})

\* the elements {children} renders
ElementChildren == Cardinality({index \in 0..(childrenArrayLength - 1) : Child(index)})

\* number of slots rendered inside carousel-content
RenderedSlots ==
  IF length > itemsPerView /\ addExtraFirstAndLastView /\ isRepeating
  THEN extraPreviousItems + ElementChildren + extraNextItems
  ELSE ElementChildren

\* largest scrollLeft the wrapper can take: scrollWidth - clientWidth
MaxScrollLeft == Max2(0, RenderedSlots * MeasuredItemWidth - offsetWidth)

\* the offset Element.scrollTo({left}) heads for: left kept inside the scroll range
ClampLeft(left) == Max2(0, Min2(left, MaxScrollLeft))

\* scrollRefTo(left, smooth, ref): an instant scroll puts the wrapper at its
\* offset and ends a smooth scroll in progress; a smooth scroll only starts
\* here and moves the wrapper in later frames
scrollRefTo(left, smooth) ==
  IF smooth /\ ClampLeft(left) # wrapperScrollLeft
  THEN /\ scrollTarget' = Num(ClampLeft(left))
       /\ UNCHANGED wrapperScrollLeft
  ELSE /\ wrapperScrollLeft' = ClampLeft(left)
       /\ scrollTarget' = Null

\* a frame of the smooth scroll in progress: the wrapper moves towards the
\* target, as far as the target at most
scrollFrame ==
  /\ scrollTarget # Null
  /\ \E x \in 0..MaxScrollLeft :
       /\ \/ wrapperScrollLeft < x /\ x <= scrollTarget[1]
          \/ scrollTarget[1] <= x /\ x < wrapperScrollLeft
       /\ wrapperScrollLeft' = x
       /\ scrollTarget' = IF x = scrollTarget[1] THEN Null ELSE scrollTarget
  /\ UNCHANGED <<props, state, itemWidth, run>>
  /\ lastOp' = "scrollFrame"
  /\ acted' = TRUE
  /\ lastArg' = Null

\* a render happens when a state setter changed a value; it refreshes the memo
Render(ci, dr, mi, tcp, sl) ==
  /\ currentIndex' = ci
  /\ isDragging' = dr
  /\ isMouseInside' = mi
  /\ touchClickPosition' = tcp
  /\ scrollLeft' = sl
  /\ itemWidth' = IF <<ci, dr, mi, tcp, sl>> # state THEN MeasuredItemWidth ELSE itemWidth
  /\ UNCHANGED props

\* the command an operation runs: the interval callback runs
\* advancePagesOnAutoScroll ? nextPage() : nextItem()
CalledCommand(op) ==
  IF op = "autoplayTick"
  THEN (IF advancePagesOnAutoScroll THEN "nextPage" ELSE "nextItem")
  ELSE op

Note(op, ok, arg) ==
  /\ lastOp' = op
  /\ acted' = ok
  /\ lastArg' = arg
  /\ run' = IF CalledCommand(op) = "nextItem" /\ run # Null /\ run[1] < MaxRun
            THEN Num(run[1] + 1) ELSE Null

\* ------------------------------------------------------ navigation engine
NextItemGuard(ci) == isRepeating \/ ci + itemsPerView <= length
\* mutants of NextItemIndex: no wrap at all; wrap only past the last item
NextItemIndex_NoWrap(ci) == ci + 1
NextItemIndex_WrapAtLength(ci) == IF ci + 1 < length THEN ci + 1 ELSE 0
NextItemIndex(ci) == IF ci + itemsPerView < length THEN ci + 1 ELSE 0

PreviousItemGuard(ci) == isRepeating \/ ci > 0
PreviousItemIndex(ci) == IF ci > 0 THEN ci - 1 ELSE length - 1

NextPageGuard(ci) == isRepeating \/ ci + (length % itemsPerView) < length
\* mutant of NextPageIndex: no wrap once the last stride is spent
NextPageIndex_StayAtEnd(ci) == IF ci + (length % itemsPerView) < length THEN ci + itemsPerView ELSE ci
NextPageIndex(ci) == IF ci + (length % itemsPerView) < length THEN ci + itemsPerView ELSE 0

\* mutant of PreviousPageGuard: the test of previousItem, and of the left arrow
PreviousPageGuard_AboveZero(ci) == isRepeating \/ ci > 0
PreviousPageGuard(ci) == isRepeating \/ ci >= itemsPerView
\* mutant of PreviousPageIndex: the wrap lands on the last full page
PreviousPageIndex_LastPage(ci) ==
  IF ci - itemsPerView >= 0 THEN ci - itemsPerView ELSE length - itemsPerView
PreviousPageIndex(ci) == IF ci - itemsPerView >= 0 THEN ci - itemsPerView ELSE length - 1

\* the body shared by the four commands once newIndex is known
MoveTo(newIndex) ==
  /\ Render(newIndex, isDragging, isMouseInside, Null, newIndex * itemWidth)
  /\ scrollRefTo(newIndex * itemWidth, TRUE)

Stay == UNCHANGED <<props, state, itemWidth, wrapper>>

nextItem ==
  /\ IF NextItemGuard(currentIndex) THEN MoveTo(NextItemIndex(currentIndex)) ELSE Stay
  /\ Note("nextItem", NextItemGuard(currentIndex), Null)

previousItem ==
  /\ IF PreviousItemGuard(currentIndex) THEN MoveTo(PreviousItemIndex(currentIndex)) ELSE Stay
  /\ Note("previousItem", PreviousItemGuard(currentIndex), Null)

nextPage ==
  /\ IF NextPageGuard(currentIndex) THEN MoveTo(NextPageIndex(currentIndex)) ELSE Stay
  /\ Note("nextPage", NextPageGuard(currentIndex), Null)

previousPage ==
  /\ IF PreviousPageGuard(currentIndex) THEN MoveTo(PreviousPageIndex(currentIndex)) ELSE Stay
  /\ Note("previousPage", PreviousPageGuard(currentIndex), Null)

\* the arrow buttons of the render: each is rendered under its own condition and
\* its advanceCallback is advancePagesOnAutoScroll ? the page command : the item command
leftArrowButton ==
  /\ showArrowButtons /\ (isRepeating \/ currentIndex > 0)
  /\ \/ advancePagesOnAutoScroll /\ previousPage
     \/ ~advancePagesOnAutoScroll /\ previousItem

rightArrowButton ==
  /\ showArrowButtons /\ (isRepeating \/ currentIndex < length - itemsPerView)
  /\ \/ advancePagesOnAutoScroll /\ nextPage
     \/ ~advancePagesOnAutoScroll /\ nextItem

\* the useInterval callback; the interval is armed by the last render only while
\* autoplay && !touchClickPosition && !isMouseInside
IntervalArmed == autoplay /\ ~Truthy(touchClickPosition) /\ ~isMouseInside

autoplayTick ==
  /\ IntervalArmed
  /\ IF advancePagesOnAutoScroll
     THEN IF NextPageGuard(currentIndex) THEN MoveTo(NextPageIndex(currentIndex)) ELSE Stay
     ELSE IF NextItemGuard(currentIndex) THEN MoveTo(NextItemIndex(currentIndex)) ELSE Stay
  /\ Note("autoplayTick",
          IF advancePagesOnAutoScroll THEN NextPageGuard(currentIndex)
          ELSE NextItemGuard(currentIndex),
          Null)

\* ------------------------------------------------------------------ snap
\* the slot the scan of scrollToClosestItemIndex stops at, from index on; length when
\* it runs off the items or leaves at !child (a missing child, or a listed 0 or '')
RECURSIVE ScanSlot(_, _, _)
ScanSlot(index, w, newScrollLeft) ==
  IF index >= length \/ ~Child(index) THEN length
  ELSE IF w * index <= newScrollLeft /\ w * index + w >= newScrollLeft THEN index
  ELSE ScanSlot(index + 1, w, newScrollLeft)

\* mutant of ClosestIndex: the midpoint goes to the left index
ClosestIndex_TieLeft(index, w, newScrollLeft) ==
  IF 2 * (w * index) + w >= 2 * newScrollLeft THEN index ELSE index + 1
\* mutant of ClosestIndex: always the slot after the one the scan stopped at
ClosestIndex_Ceil(index, w, newScrollLeft) == index + 1

\* childLeft + itemWidth / 2 > newScrollLeft ? index : index + 1
ClosestIndex(index, w, newScrollLeft) ==
  IF 2 * (w * index) + w > 2 * newScrollLeft THEN index ELSE index + 1

SnapFound(w, newScrollLeft) == ScanSlot(0, w, newScrollLeft) < length
SnapIndex(w, newScrollLeft) == ClosestIndex(ScanSlot(0, w, newScrollLeft), w, newScrollLeft)

\* scrollToClosestItemIndex, as the last call of a release
Snap(dr, mi) ==
  LET found == SnapFound(itemWidth, wrapperScrollLeft)
      newIndex == SnapIndex(itemWidth, wrapperScrollLeft)
  IN  IF found
      THEN /\ Render(newIndex, dr, mi, Null, newIndex * itemWidth)
           /\ scrollRefTo(newIndex * itemWidth, TRUE)
      ELSE /\ Render(currentIndex, dr, mi, Null, scrollLeft)
           /\ UNCHANGED wrapper

\* -------------------------------------------------------- gesture tracker
\* the common body of handleOnTouchEnd and handleOnMouseUp; mi is the
\* isMouseInside value the enclosing handler leaves behind
\* mutant of Release: the snap runs in free-scroll mode too
Release_AlwaysSnap(mi) == Snap(FALSE, mi)

Release(mi) ==
  IF freeScroll
  THEN /\ Render(currentIndex, FALSE, mi, Null, scrollLeft)
       /\ UNCHANGED wrapper
  ELSE Snap(FALSE, mi)

Snapped == ~freeScroll /\ SnapFound(itemWidth, wrapperScrollLeft)

\* the common body of handleOnTouchStart and handleOnMouseDown
PressStart(p) ==
  /\ Render(currentIndex, isDragging, isMouseInside, Num(p), wrapperScrollLeft)
  /\ UNCHANGED wrapper

Walk(p) == (p - touchClickPosition[1]) * scrollSensitivity

\* mutant of PointerMove: a walk equal to minDragDistance already commits the drag
PointerMove_AtThreshold(p) ==
  IF touchClickPosition = Null
  THEN Stay
  ELSE /\ Render(currentIndex, isDragging \/ Abs(Walk(p)) >= minDragDistance,
                 isMouseInside, touchClickPosition, scrollLeft)
       /\ IF isDragging THEN scrollRefTo(scrollLeft - Walk(p), FALSE) ELSE UNCHANGED wrapper

\* mutant of PointerMove: the index follows the live offset during the drag
PointerMove_LiveIndex(p) ==
  IF touchClickPosition = Null
  THEN Stay
  ELSE LET live == IF isDragging THEN ClampLeft(scrollLeft - Walk(p)) ELSE wrapperScrollLeft
       IN  /\ Render(IF isDragging /\ SnapFound(itemWidth, live)
                     THEN SnapIndex(itemWidth, live) ELSE currentIndex,
                     isDragging \/ Abs(Walk(p)) > minDragDistance,
                     isMouseInside, touchClickPosition, scrollLeft)
           /\ IF isDragging THEN scrollRefTo(scrollLeft - Walk(p), FALSE) ELSE UNCHANGED wrapper

\* the common body of handleOnTouchMove and handleOnMouseMove
PointerMove(p) ==
  IF touchClickPosition = Null
  THEN Stay
  ELSE /\ Render(currentIndex, isDragging \/ Abs(Walk(p)) > minDragDistance,
                 isMouseInside, touchClickPosition, scrollLeft)
       /\ IF isDragging THEN scrollRefTo(scrollLeft - Walk(p), FALSE) ELSE UNCHANGED wrapper

handleOnTouchStart ==
  \E p \in Pointers : PressStart(p) /\ Note("pressStart", TRUE, Null)

handleOnMouseDown ==
  \E p \in Pointers : PressStart(p) /\ Note("pressStart", TRUE, Null)

handleOnTouchMove ==
  \E p \in Pointers : PointerMove(p) /\ Note("pointerMove", touchClickPosition # Null, Num(p))

handleOnMouseMove ==
  \E p \in Pointers : PointerMove(p) /\ Note("pointerMove", touchClickPosition # Null, Num(p))

handleOnTouchEnd ==
  /\ Release(isMouseInside)
  /\ Note("release", Snapped, Num(wrapperScrollLeft))

handleOnMouseUp ==
  /\ Release(isMouseInside)
  /\ Note("release", Snapped, Num(wrapperScrollLeft))

handleOnTouchCancel ==
  /\ IF Truthy(touchClickPosition)
     THEN Release(isMouseInside)
     ELSE /\ Render(currentIndex, FALSE, isMouseInside, touchClickPosition, scrollLeft)
          /\ UNCHANGED wrapper
  /\ Note("touchCancel", Truthy(touchClickPosition), Num(wrapperScrollLeft))

handleOnMouseEnter ==
  /\ Render(currentIndex, isDragging, TRUE, touchClickPosition, scrollLeft)
  /\ UNCHANGED wrapper
  /\ Note("mouseEnter", TRUE, Null)

handleOnMouseLeave ==
  /\ IF Truthy(touchClickPosition)
     THEN Release(FALSE)
     ELSE /\ Render(currentIndex, isDragging, FALSE, touchClickPosition, scrollLeft)
          /\ UNCHANGED wrapper
  /\ Note("leave", Truthy(touchClickPosition), Num(wrapperScrollLeft))

\* ------------------------------------------------------------ behaviours
Lengths == 1..MaxLength
ItemsPerViews == 1..MaxItemsPerView
\* the wrapper is either not laid out (width 0) or laid out with slots of MaxSlotWidth
SlotWidths == {0, MaxSlotWidth}

\* the lists of n children with at most MaxFalsyNodes falsy ones
ChildrenArrays(n) ==
  {c \in [1..n -> BOOLEAN] : Cardinality({i \in 1..n : ~c[i]}) <= MaxFalsyNodes}

InitProps ==
  /\ length \in Lengths
  /\ childrenArray \in UNION {ChildrenArrays(n) : n \in Max2(0, length - MaxEmptyNodes)..length}
  /\ itemsPerView \in ItemsPerViews
  /\ infiniteLoop \in BOOLEAN
  \* the prop is only read when the carousel repeats (render, content children)
  /\ addExtraFirstAndLastView \in (IF infiniteLoop /\ length > itemsPerView THEN BOOLEAN ELSE {FALSE})
  /\ freeScroll \in BOOLEAN
  /\ offsetWidth \in {itemsPerView * w : w \in SlotWidths}

\* autoplay and advancePagesOnAutoScroll left at their defaults
AutoplayOff ==
  /\ autoplay = FALSE
  /\ advancePagesOnAutoScroll = TRUE

\* autoplay left at its default: advancePagesOnAutoScroll is read by the arrow
\* buttons only
ArrowsOnly ==
  /\ autoplay = FALSE
  /\ advancePagesOnAutoScroll \in BOOLEAN

\* showArrowButtons left at its default
ArrowsShown == showArrowButtons = TRUE

AutoplayOn ==
  /\ autoplay = TRUE
  /\ advancePagesOnAutoScroll \in BOOLEAN

\* the state after the first render and mount
FirstRender ==
  /\ currentIndex = 0
  /\ isDragging = FALSE
  /\ isMouseInside = FALSE
  /\ touchClickPosition = Null
  /\ scrollLeft = 0
  /\ itemWidth = 0
  /\ wrapperScrollLeft = 0
  /\ scrollTarget = Null
  /\ lastOp = "init"
  /\ acted = FALSE
  /\ lastArg = Null
  /\ run = Num(0)

\* the component after its first render and mount, for the arrow buttons and
\* the pointer handlers: carousels of up to MaxGestureLength items
Init ==
  /\ InitProps
  /\ length <= MaxGestureLength
  /\ ArrowsOnly
  /\ ArrowsShown
  /\ FirstRender

Next ==
  \/ leftArrowButton
  \/ rightArrowButton
  \/ handleOnTouchStart
  \/ handleOnTouchMove
  \/ handleOnTouchEnd
  \/ handleOnTouchCancel
  \/ handleOnMouseEnter
  \/ handleOnMouseDown
  \/ handleOnMouseMove
  \/ handleOnMouseUp
  \/ handleOnMouseLeave
  \/ scrollFrame

Spec == Init /\ [][Next]_vars

ValidConfig == 1 <= itemsPerView /\ itemsPerView <= length

\* the component with autoplay switched on
InitAutoplay ==
  /\ InitProps
  /\ length <= MaxGestureLength
  /\ AutoplayOn
  /\ ArrowsShown
  /\ FirstRender

NextAutoplay ==
  \/ autoplayTick
  \/ Next

SpecAutoplay == InitAutoplay /\ [][NextAutoplay]_vars

\* a repeating carousel with autoplay on that nobody touches: the interval of
\* useInterval stays armed and its callback is the only thing that runs
InitTicks ==
  /\ InitProps
  /\ AutoplayOn
  /\ ArrowsShown
  /\ FirstRender
  /\ isRepeating

NextTicks ==
  \/ autoplayTick
  \/ scrollFrame

\* an armed interval fires again after every autoplayInterval milliseconds
SpecTicks == InitTicks /\ [][NextTicks]_vars /\ WF_vars(autoplayTick)

\* the component after its first render and mount, driven by its arrow
\* buttons and by mouse releases over the wrapper (each one a snap): carousels
\* of up to MaxLength items
InitCommands ==
  /\ InitProps
  /\ ArrowsOnly
  /\ showArrowButtons \in BOOLEAN
  /\ FirstRender

NextCommands ==
  \/ leftArrowButton
  \/ rightArrowButton
  \/ handleOnMouseUp
  \/ scrollFrame

SpecCommands == InitCommands /\ [][NextCommands]_vars

\* any in-range starting index of a non-repeating carousel, then item steps only
InitItems ==
  /\ InitProps
  /\ AutoplayOff
  /\ ArrowsShown
  /\ ~isRepeating
  /\ currentIndex \in 0..(length - 1)
  /\ isDragging = FALSE
  /\ isMouseInside = FALSE
  /\ touchClickPosition = Null
  /\ itemWidth \in {0, MeasuredItemWidth}
  /\ scrollLeft = currentIndex * itemWidth
  /\ wrapperScrollLeft = ClampLeft(scrollLeft)
  /\ scrollTarget = Null
  /\ lastOp = "init"
  /\ acted = FALSE
  /\ lastArg = Null
  /\ run = Null

NextItems ==
  \/ nextItem
  \/ previousItem
  \/ scrollFrame

SpecItems == InitItems /\ [][NextItems]_vars

InRange == 0 <= currentIndex /\ currentIndex <= length - 1
Commands == {"nextItem", "previousItem", "nextPage", "previousPage"}

\* ------------------------------------------------------------------ C1
\* C1: with 1 <= itemsPerView <= length, currentIndex is in [0, length-1] in
\* every state reached from construction by the commands and the snaps.
C1_IndexAlwaysInRange == ValidConfig => InRange

\* ------------------------------------------------------------------ C2
\* C2: in a non-repeating carousel a nextItem call (of the right arrow or of
\* the interval callback) made in a run of nextItem calls from index 0 never
\* lowers currentIndex, and leaves it unchanged when
\* currentIndex + itemsPerView >= length.
C2_NextItemNeverWraps ==
  [][(CalledCommand(lastOp') = "nextItem" /\ run' # Null /\ ~isRepeating /\ ValidConfig)
       => /\ currentIndex' >= currentIndex
          /\ (currentIndex + itemsPerView >= length => currentIndex' = currentIndex)]_vars

\* ------------------------------------------------------------------ C3
\* C3: non-repeating, from any in-range index, nextItem and previousItem keep
\* currentIndex in [0, length-1].
C3_ItemStepsStayInRange == ~isRepeating => InRange

C3_Witness ==
  /\ ~isRepeating
  /\ lastOp = "nextItem"
  /\ acted
  /\ length >= 2
  /\ currentIndex = length - 1

\* ------------------------------------------------------------------ C4
\* C4 as stated: in a repeating carousel the index after n nextItem calls from
\* index 0 is n mod length (all indices visited, back at 0 after length calls).
C4_CycleOfLength ==
  (isRepeating /\ run # Null) => currentIndex = run[1] % length

\* C4 amended: in a repeating carousel the index after n nextItem calls from
\* index 0 is n mod (length - itemsPerView + 1): the calls visit the indices
\* 0..length-itemsPerView and are back at 0 after length - itemsPerView + 1 calls.
C4_CycleOfWindows ==
  (isRepeating /\ run # Null) => currentIndex = run[1] % (length - itemsPerView + 1)

C4_Witness ==
  /\ isRepeating
  /\ itemsPerView >= 2
  /\ run = Num(length - itemsPerView + 1)
  /\ currentIndex = 0

\* ------------------------------------------------------------------ C5
\* C5: in a non-repeating carousel a command called at its boundary
\* (previousItem at 0, nextItem with currentIndex + itemsPerView > length,
\* nextPage with currentIndex + length mod itemsPerView >= length, previousPage
\* with currentIndex < itemsPerView) changes nothing: index, scroll offset,
\* drag session, wrapper offset.
AtBoundary(op) ==
  /\ ~isRepeating
  /\ \/ op = "previousItem" /\ currentIndex = 0
     \/ op = "nextItem" /\ currentIndex + itemsPerView > length
     \/ op = "nextPage" /\ currentIndex + (length % itemsPerView) >= length
     \/ op = "previousPage" /\ currentIndex < itemsPerView

InSlot(i, w, x) == w * i <= x /\ x <= w * i + w
HasSlot(w, x) == \E i \in 0..(length - 1) : InSlot(i, w, x)
FirstSlot(w, x) ==
  CHOOSE i \in 0..(length - 1) : InSlot(i, w, x) /\ \A j \in 0..(i - 1) : ~InSlot(j, w, x)

\* a release that snaps, with a measured item width, the scan meeting a truthy
\* child at every slot up to the first one that holds the offset
SnapCase ==
  /\ ~freeScroll
  /\ itemWidth > 0
  /\ HasSlot(itemWidth, wrapperScrollLeft)
  /\ \A j \in 0..FirstSlot(itemWidth, wrapperScrollLeft) : Child(j)

\* C6 as stated: the snap of a release resolves the live offset x to the first
\* slot i containing it when x is at or left of the slot's midpoint, else to i+1
\* (the midpoint itself goes to i).
C6_NearestSlotTieLeft ==
  [][(lastOp' = "release" /\ SnapCase)
       => LET i == FirstSlot(itemWidth, wrapperScrollLeft)
          IN  currentIndex' = IF 2 * wrapperScrollLeft <= 2 * itemWidth * i + itemWidth
                              THEN i ELSE i + 1]_vars

\* C6 amended: the snap resolves x to the first slot i containing it when x is
\* strictly left of the slot's midpoint, else to i+1 (the midpoint itself goes
\* to i+1).
C6_NearestSlotTieRight ==
  [][(lastOp' = "release" /\ SnapCase)
       => LET i == FirstSlot(itemWidth, wrapperScrollLeft)
          IN  currentIndex' = IF 2 * wrapperScrollLeft < 2 * itemWidth * i + itemWidth
                              THEN i ELSE i + 1]_vars

\* a release has just snapped an offset lying exactly on a slot midpoint
C6_Witness ==
  /\ lastOp = "release"
  /\ acted
  /\ itemWidth > 0
  /\ \E i \in 0..(length - 1) :
       /\ 2 * lastArg[1] = 2 * itemWidth * i + itemWidth
       /\ currentIndex = i + 1

\* ------------------------------------------------------------------ C7
\* C7: the snap is idempotent. A release that reads the same offset as the
\* snapping release just before it leaves currentIndex as that release set it,
\* and a release that reads the offset currentIndex * itemWidth (the offset a
\* snap produces) leaves currentIndex unchanged.
C7_SnapIdempotent ==
  [][(/\ lastOp' = "release" /\ ~freeScroll
      /\ \/ lastOp = "release" /\ acted /\ lastArg = Num(wrapperScrollLeft)
         \/ wrapperScrollLeft = currentIndex * itemWidth)
       => currentIndex' = currentIndex]_vars

\* ------------------------------------------------------------------ C8
\* C8: while itemWidth is 0 the four commands and the release-time snap leave
\* currentIndex and scrollLeft unchanged.
C8_ZeroWidthNoOp ==
  [][(itemWidth = 0 /\ lastOp' \in Commands \cup {"release"})
       => UNCHANGED <<currentIndex, scrollLeft>>]_vars

\* ------------------------------------------------------------------ C9
\* C9: under a configuration with itemsPerView > length (or <= 0) the carousel
\* is never in a state where a navigation command has been accepted.
C9_InvalidConfigRejected == ~ValidConfig => ~(lastOp \in Commands /\ acted)

\* ----------------------------------------------------------------- C10
\* C10: a mouse leave or touch cancel arriving while a session is open
\* (whatever its origin position) clears the origin, leaves isDragging false
\* and moves the index as a release does.
C10_CancelResolvesSession ==
  [][(lastOp' \in {"leave", "touchCancel"} /\ touchClickPosition # Null)
       => /\ touchClickPosition' = Null
          /\ ~isDragging'
          /\ currentIndex' = IF Snapped THEN SnapIndex(itemWidth, wrapperScrollLeft)
                             ELSE currentIndex]_vars

\* ----------------------------------------------------------------- C11
\* C11: an autoplay tick runs only when no drag session is open (the origin
\* is null) and the pointer is outside the widget.
C11_TickYieldsToInteraction ==
  [][lastOp' = "autoplayTick" => (touchClickPosition = Null /\ ~isMouseInside)]_vars

\* ----------------------------------------------------------------- C12
\* C12: a pointer move arriving in state Pressed (session open, not dragging)
\* leaves the tracker Dragging exactly when |walk| > minDragDistance, where
\* walk = (pointerPosition - originPointerPosition) * scrollSensitivity.
C12_DragThreshold ==
  [][(lastOp' = "pointerMove" /\ touchClickPosition # Null /\ ~isDragging)
       => (isDragging' <=>
             Abs((lastArg'[1] - touchClickPosition[1]) * scrollSensitivity) > minDragDistance)]_vars

\* the move that committed the drag: past the threshold, nothing scrolled yet
C12_Witness ==
  /\ lastOp = "pointerMove"
  /\ touchClickPosition # Null
  /\ isDragging
  /\ Abs((lastArg[1] - touchClickPosition[1]) * scrollSensitivity) > minDragDistance
  /\ wrapperScrollLeft = scrollLeft

\* ----------------------------------------------------------------- C13
\* C13: every pointer move of an open session that leaves the tracker
\* Dragging (the move that first passes minDragDistance included) scrolls the
\* wrapper to baselineScrollOffset - walk; a move that leaves it Pressed does
\* not scroll.
C13_DraggingMoveScrolls ==
  [][(lastOp' = "pointerMove" /\ touchClickPosition # Null)
       => LET walk == (lastArg'[1] - touchClickPosition[1]) * scrollSensitivity
          IN  wrapperScrollLeft' = IF isDragging' THEN ClampLeft(scrollLeft - walk)
                                   ELSE wrapperScrollLeft]_vars

\* ----------------------------------------------------------------- C14
\* C14: whenever no drag session is open (origin null, not dragging) the
\* stored scroll offset is currentIndex * itemWidth, in snap mode and in
\* free-scroll mode.
C14_IdleOffsetMatchesIndex ==
  (touchClickPosition = Null /\ ~isDragging) => scrollLeft = currentIndex * itemWidth

\* ----------------------------------------------------------------- C15
\* C15: a press start and a pointer move never change currentIndex; a release,
\* leave or cancel changes it only through the snap (free scroll off, and then
\* to the index the snap resolves the live offset to).
C15_GestureKeepsIndex ==
  [][/\ lastOp' \in {"pressStart", "pointerMove"} => currentIndex' = currentIndex
     /\ (lastOp' \in {"release", "leave", "touchCancel"} /\ currentIndex' # currentIndex)
          => (Snapped /\ currentIndex' = SnapIndex(itemWidth, wrapperScrollLeft))]_vars

\* a drag has moved the wrapper onto an offset that snaps to another index,
\* and currentIndex is still the old one
C15_Witness ==
  /\ lastOp = "pointerMove"
  /\ isDragging
  /\ itemWidth > 0
  /\ SnapFound(itemWidth, wrapperScrollLeft)
  /\ SnapIndex(itemWidth, wrapperScrollLeft) # currentIndex

\* ------------------------------------------------------------ indicators
\* the length prop SBCarousel hands to SBCarouselIndicators
IndicatorLength == length + 1 - itemsPerView

\* mutants of Classify: the band at the last dot as narrow as inside; the
\* inner distance taken without Math.abs
Classify_NarrowEnd(index, ci, n) ==
  IF ci = index THEN "dots-active"
  ELSE IF ci = 0 THEN (IF ci + index <= 2 THEN "dots-close" ELSE "dots-far")
  ELSE IF Abs(ci - index) = 1 THEN "dots-close" ELSE "dots-far"
Classify_NoAbs(index, ci, n) ==
  IF ci = index THEN "dots-active"
  ELSE IF ci = 0 THEN (IF ci + index <= 2 THEN "dots-close" ELSE "dots-far")
  ELSE IF ci = n - 1 THEN (IF Abs(ci - index) <= 2 THEN "dots-close" ELSE "dots-far")
  ELSE IF ci - index = 1 THEN "dots-close" ELSE "dots-far"

\* the className renderDots gives the dot index, for currentIndex ci and n dots
Classify(index, ci, n) ==
  IF ci = index THEN "dots-active"
  ELSE IF ci = 0 THEN (IF ci + index <= 2 THEN "dots-close" ELSE "dots-far")
  ELSE IF ci = n - 1 THEN (IF Abs(ci - index) <= 2 THEN "dots-close" ELSE "dots-far")
  ELSE IF Abs(ci - index) = 1 THEN "dots-close" ELSE "dots-far"

renderDots ==
  [index \in 0..(IndicatorLength - 1) |-> Classify(index, currentIndex, IndicatorLength)]

\* carousels of up to MaxDots items at any index that has a dot, driven by the
\* commands only
InitIndicators ==
  /\ length \in 1..MaxDots
  /\ childrenArray = [i \in 1..length |-> TRUE]
  /\ itemsPerView \in ItemsPerViews
  /\ infiniteLoop \in BOOLEAN
  /\ addExtraFirstAndLastView = FALSE
  /\ freeScroll = FALSE
  /\ offsetWidth \in {itemsPerView * w : w \in SlotWidths}
  /\ AutoplayOff
  /\ ArrowsShown
  /\ currentIndex \in 0..Max2(0, IndicatorLength - 1)
  /\ isDragging = FALSE
  /\ isMouseInside = FALSE
  /\ touchClickPosition = Null
  /\ itemWidth = MeasuredItemWidth
  /\ scrollLeft = currentIndex * itemWidth
  /\ wrapperScrollLeft = ClampLeft(scrollLeft)
  /\ scrollTarget = Null
  /\ lastOp = "init"
  /\ acted = FALSE
  /\ lastArg = Null
  /\ run = Null

NextIndicators ==
  \/ nextItem
  \/ previousItem
  \/ nextPage
  \/ previousPage
  \/ scrollFrame

SpecIndicators == InitIndicators /\ [][NextIndicators]_vars

HasDot == 0 <= currentIndex /\ currentIndex <= IndicatorLength - 1

\* ----------------------------------------------------------------- C16
\* C16: with currentIndex on a dot, dot index is active iff index =
\* currentIndex; otherwise close iff index <= 2 when currentIndex = 0, else
\* close iff |currentIndex - index| <= 2 when currentIndex is the last dot,
\* else close iff |currentIndex - index| = 1; far in all remaining cases.
C16_Classification ==
  HasDot =>
    \A index \in 0..(IndicatorLength - 1) :
      renderDots[index] =
        IF index = currentIndex THEN "dots-active"
        ELSE IF currentIndex = 0
             THEN (IF index <= 2 THEN "dots-close" ELSE "dots-far")
        ELSE IF currentIndex = IndicatorLength - 1
             THEN (IF currentIndex - index <= 2 THEN "dots-close" ELSE "dots-far")
        ELSE IF index = currentIndex - 1 \/ index = currentIndex + 1
             THEN "dots-close" ELSE "dots-far"

\* a command has brought a carousel of at least four dots to index 0
C16_Witness ==
  /\ lastOp \in Commands
  /\ acted
  /\ currentIndex = 0
  /\ IndicatorLength >= 4
  /\ renderDots[2] = "dots-close"
  /\ renderDots[3] = "dots-far"

\* ----------------------------------------------------------------- C17
\* C17: for 2 < currentIndex < (number of dots) - 3 the dots at equal distance
\* on both sides of currentIndex get the same class, for every distance that
\* keeps both dots in range.
C17_InteriorSymmetry ==
  (2 < currentIndex /\ currentIndex < IndicatorLength - 3) =>
    \A dist \in 1..IndicatorLength :
      (currentIndex - dist >= 0 /\ currentIndex + dist <= IndicatorLength - 1)
        => renderDots[currentIndex - dist] = renderDots[currentIndex + dist]

\* a command has brought the carousel to an inner index with close and far
\* dots on both sides
C17_Witness ==
  /\ lastOp \in Commands
  /\ acted
  /\ 2 < currentIndex
  /\ currentIndex < IndicatorLength - 3
  /\ renderDots[currentIndex + 1] = "dots-close"
  /\ renderDots[currentIndex - 2] = "dots-far"

\* ----------------------------------------------------------------- C18
\* C18: a release ends with the origin null and isDragging false; with free
\* scroll on it leaves currentIndex, the stored offset and the wrapper alone;
\* with free scroll off it snaps (over a slot holding a child the stored offset
\* becomes currentIndex * itemWidth).
C18_ReleaseEndsSession ==
  [][lastOp' = "release"
       => /\ touchClickPosition' = Null
          /\ ~isDragging'
          /\ freeScroll => UNCHANGED <<currentIndex, scrollLeft, wrapperScrollLeft>>
          /\ (/\ ~freeScroll
              /\ HasSlot(itemWidth, wrapperScrollLeft)
              /\ \A j \in 0..FirstSlot(itemWidth, wrapperScrollLeft) : Child(j))
               => scrollLeft' = currentIndex' * itemWidth]_vars

\* a free-scroll release has left the wrapper on an offset that a snap would
\* have resolved to another index
C18_Witness ==
  /\ lastOp = "release"
  /\ freeScroll
  /\ touchClickPosition = Null
  /\ ~isDragging
  /\ itemWidth > 0
  /\ SnapFound(itemWidth, wrapperScrollLeft)
  /\ SnapIndex(itemWidth, wrapperScrollLeft) # currentIndex

\* ----------------------------------------------------------------- C19
\* C19: previousPage sets currentIndex - itemsPerView when currentIndex >=
\* itemsPerView; below that it sets length - 1 when the carousel repeats and
\* leaves currentIndex unchanged otherwise.
C19_PreviousPage ==
  [][lastOp' = "previousPage"
       => currentIndex' = IF currentIndex >= itemsPerView THEN currentIndex - itemsPerView
                          ELSE IF isRepeating THEN length - 1
                          ELSE currentIndex]_vars

\* previousPage has wrapped a repeating carousel of pages of two or more items
C19_Witness ==
  /\ lastOp = "previousPage"
  /\ acted
  /\ isRepeating
  /\ itemsPerView >= 2
  /\ currentIndex = length - 1
  /\ scrollLeft = (length - 1) * itemWidth

\* ----------------------------------------------------------------- C20
\* C20: on a repeating carousel with autoplay on and no interaction, under
\* fair ticking currentIndex is 0 again and again, whether the ticks call
\* nextPage or nextItem.
C20_TicksReturnToStart == []<>(currentIndex = 0)

\* a tick has wrapped the carousel back to the start
C20_Witness ==
  /\ lastOp = "autoplayTick"
  /\ acted
  /\ isRepeating
  /\ IntervalArmed
  /\ currentIndex = 0
  /\ scrollLeft = 0

\* ----------------------------------------------------------------- C21
\* C21: with 1 <= itemsPerView <= length, in every reachable state
\* currentIndex <= length - itemsPerView, so that currentIndex is the index
\* of one of the length + 1 - itemsPerView indicator dots.
C21_IndexWithinDots == ValidConfig => currentIndex <= length - itemsPerView

\* ----------------------------------------------------------------- C22
\* C22: in every reachable state isDragging implies that the origin of the
\* drag session is recorded (touchClickPosition is not null), whatever the
\* interleaving of pointer events, commands and autoplay ticks.
C22_DraggingHasOrigin == isDragging => touchClickPosition # Null

\* ----------------------------------------------------------------- C23
\* C23: a plain click leaves the position alone. With itemWidth > 0, free
\* scroll off, currentIndex in [0, length-1] and the wrapper at
\* currentIndex * itemWidth, a release that ends a session opened by a press
\* in which no drag was committed leaves currentIndex, the wrapper's offset
\* and the stored offset unchanged. The press stored the wrapper's offset, and
\* without a committed drag the wrapper has not moved since.
AlignedClick ==
  /\ itemWidth > 0
  /\ ~freeScroll
  /\ InRange
  /\ wrapperScrollLeft = currentIndex * itemWidth
  /\ scrollLeft = wrapperScrollLeft
  /\ touchClickPosition # Null
  /\ ~isDragging
  /\ lastOp \in {"pressStart", "pointerMove"}

C23_ClickKeepsPosition ==
  [][(AlignedClick /\ lastOp' = "release")
       => UNCHANGED <<currentIndex, wrapperScrollLeft, scrollLeft>>]_vars

\* a release has snapped a carousel that rested on an index other than 0
\* back onto that index
C23_Witness ==
  /\ lastOp = "release"
  /\ acted
  /\ ~freeScroll
  /\ itemWidth > 0
  /\ InRange
  /\ currentIndex >= 1
  /\ lastArg = Num(currentIndex * itemWidth)
  /\ wrapperScrollLeft = currentIndex * itemWidth
  /\ scrollLeft = currentIndex * itemWidth
====
